---- MODULE Spec2Model ----
(***************************************************************************)
(* Model of the sequence-api subsequence pipeline:                         *)
(*   app/services/subsequence_service.py  (canonical_sequence,             *)
(*       generate_subsequences, SubsequenceService.create_from_sequence)   *)
(*   app/repositories/subsequence_repo.py (_hash_items, insert_sequence,   *)
(*       upsert_subsequence, insert_subsequences_bulk, latest_grouped)     *)
(*   app/db/mongo.py                      (ensure_indexes: unique index)   *)
(*                                                                         *)
(* A request is one asyncio task.  Every `await` on the store is a         *)
(* suspension point, so one action of the model is one store operation     *)
(* together with the local code that runs up to the next await.            *)
(***************************************************************************)
EXTENDS Integers, Sequences, FiniteSets, TLC

\* ------------------------------------------------------------------ bounds

\* Values of the small inputs are drawn from 1..MaxVal.
MaxVal == 2

\* Longest canonical sequence the model enumerates; a longer accepted
\* request is followed up to its insert_sequence and no further.
MaxEnum == 7

\* Number of UpdateOne statements of a bulk_write the store applies before
\* another request's store operation can be scheduled.
BulkChunk == 64

\* Longest input list of the pure-function specifications.
MaxLen == 3

\* ------------------------------------------------------- program constants

\* subsequence_service.py:41-42  `if n > 18: limit_n = 18`
limit_n == 18

\* subsequence_service.py:57  `bulk_threshold = 100`
bulk_threshold == 100

\* ------------------------------------------------------------ list helpers

Range(s) == {s[i] : i \in DOMAIN s}

RECURSIVE Pow2(_)
Pow2(k) == IF k = 0 THEN 1 ELSE 2 * Pow2(k - 1)

\* list.insert at the place Python's stable ascending sort puts x: after
\* every element <= x.
RECURSIVE InsertSorted(_, _)
InsertSorted(x, s) ==
    IF s = <<>> THEN <<x>>
    ELSE IF x < Head(s) THEN <<x>> \o s
    ELSE <<Head(s)>> \o InsertSorted(x, Tail(s))

\* sorted(list): ascending, duplicates kept.
RECURSIVE sorted(_)
sorted(s) == IF s = <<>> THEN <<>> ELSE InsertSorted(Head(s), sorted(Tail(s)))

\* set(list): the values, multiplicity and order dropped.
set(s) == Range(s)

\* Iteration over a Python set yields its elements once each, in an order
\* the language does not fix.
RECURSIVE SetIter(_)
SetIter(S) ==
    IF S = {} THEN <<>>
    ELSE LET x == CHOOSE y \in S : TRUE IN <<x>> \o SetIter(S \ {x})

\* sorted(items) without the set(): duplicates survive.
canonical_sequence_no_dedup(items) == sorted(items)

\* The values in the order they are first seen, as list(dict.fromkeys(items))
\* gives them: duplicates dropped, nothing sorted.
RECURSIVE canonical_sequence_unsorted(_)
canonical_sequence_unsorted(items) ==
    IF items = <<>> THEN <<>>
    ELSE LET init == canonical_sequence_unsorted(SubSeq(items, 1, Len(items) - 1))
             last == items[Len(items)]
         IN  IF last \in Range(init) THEN init ELSE Append(init, last)

\* subsequence_service.py:11-19
canonical_sequence(items) == sorted(SetIter(set(items)))

RECURSIVE Flatten(_)
Flatten(ss) == IF ss = <<>> THEN <<>> ELSE Head(ss) \o Flatten(Tail(ss))

\* itertools.combinations(items, k): the k-tuples of items, positions
\* ascending, in lexicographic order of the positions.
RECURSIVE combinations(_, _)
combinations(items, k) ==
    IF k = 0 THEN << <<>> >>
    ELSE IF Len(items) < k THEN <<>>
    ELSE LET withHead == combinations(Tail(items), k - 1)
             without  == combinations(Tail(items), k)
         IN  [i \in 1..Len(withHead) |-> <<Head(items)>> \o withHead[i]]
             \o without

\* The enumeration with range(1, n) for range(1, n + 1).
generate_subsequences_short(items) ==
    Flatten([k \in 1..(Len(items) - 1) |-> combinations(items, k)])

\* The enumeration starting at the pairs: range(2, n + 1).
generate_subsequences_no_singletons(items) ==
    Flatten([k \in 1..(Len(items) - 1) |-> combinations(items, k + 1)])

\* subsequence_service.py:21-26
generate_subsequences(items) ==
    Flatten([k \in 1..Len(items) |-> combinations(items, k)])

\* ------------------------------------------------------------ content hash

DigitChar == <<"0", "1", "2", "3", "4", "5", "6", "7", "8", "9">>

\* str(x) of an int: its decimal digits, with a leading "-" below zero.
RECURSIVE str(_)
str(x) ==
    IF x < 0 THEN "-" \o str(0 - x)
    ELSE IF x < 10 THEN DigitChar[x + 1]
    ELSE str(x \div 10) \o DigitChar[(x % 10) + 1]

\* ",".join(parts)
RECURSIVE join(_)
join(parts) ==
    IF parts = <<>> THEN ""
    ELSE IF Len(parts) = 1 THEN Head(parts)
    ELSE Head(parts) \o "," \o join(Tail(parts))

\* sha256(key.encode()).hexdigest(): the digest is taken as collision-free,
\* so it is represented by the key it was computed from.
sha256_hexdigest(key) == "sha256(" \o key \o ")"

\* The hash of the items in the order given, the sorted() left out.
hash_items_unsorted(items) ==
    sha256_hexdigest(join([i \in 1..Len(items) |-> str(items[i])]))

\* subsequence_repo.py:16-19
hash_items(items) ==
    LET srt == sorted(items)
        key == join([i \in 1..Len(srt) |-> str(srt[i])])
    IN  sha256_hexdigest(key)

\* ------------------------------------------------------------------- store

\* An ObjectId the store generates, and the two forms the code passes it in.
NewObjectId(k) == [type |-> "ObjectId", v |-> k]

\* The string of another ObjectId than the one given.
oid_to_str_other(oid) == [type |-> "str", v |-> oid.v + 1]

\* str(res.inserted_id)
oid_to_str(oid) == [type |-> "str", v |-> oid.v]

\* ObjectId(sequence_id) of a string holding a valid id.
ObjectId(s) == [type |-> "ObjectId", v |-> s.v]

\* The index without unique=True: no key ever stands in the way of a write.
index_keys_not_unique(col) == {}

\* The keys of the unique index on items_hash of a subsequences collection
\* (mongo.py:28).
index_keys(col) == {col[i].items_hash : i \in 1..Len(col)}

\* insert_one on a collection without the unique index on items_hash.
insert_one_sub_no_index(col, doc) ==
    [col |-> Append(col, doc), error |-> "none"]

\* The write done as replace_one(..., upsert=True): a stored document with
\* the same hash is overwritten by the new one.
insert_one_sub_replace(col, doc) ==
    [col |-> IF doc.items_hash \in index_keys(col)
             THEN [i \in 1..Len(col) |->
                      IF col[i].items_hash = doc.items_hash THEN doc
                      ELSE col[i]]
             ELSE Append(col, doc),
     error |-> "none"]

\* Collection.insert_one on the subsequences collection, which carries the
\* unique index on items_hash: the insert is refused with a
\* DuplicateKeyError when the hash is already stored.
insert_one_sub(col, doc) ==
    IF doc.items_hash \in index_keys(col)
    THEN [col |-> col, error |-> "DuplicateKeyError"]
    ELSE [col |-> Append(col, doc), error |-> "none"]

\* The update written with $set instead of $setOnInsert: a matching document
\* is overwritten.
update_one_upsert_set(col, keys, doc) ==
    IF doc.items_hash \in keys
    THEN [col |-> [i \in 1..Len(col) |->
                      IF col[i].items_hash = doc.items_hash THEN doc
                      ELSE col[i]],
          keys |-> keys, upserted |-> 0, matched |-> 1,
          modified |-> IF doc \in {col[i] : i \in 1..Len(col)} THEN 0 ELSE 1]
    ELSE [col |-> Append(col, doc), keys |-> keys \cup {doc.items_hash},
          upserted |-> 1, matched |-> 0, modified |-> 0]

\* A delete of the matching document followed by an insert of doc.
update_one_upsert_delete_insert(col, keys, doc) ==
    IF doc.items_hash \in keys
    THEN [col |-> Append(SelectSeq(col, LAMBDA d :
                                     d.items_hash # doc.items_hash), doc),
          keys |-> keys, upserted |-> 0, matched |-> 1, modified |-> 1]
    ELSE [col |-> Append(col, doc), keys |-> keys \cup {doc.items_hash},
          upserted |-> 1, matched |-> 0, modified |-> 0]

\* UpdateOne({"items_hash": h}, {"$setOnInsert": doc}, upsert=True) on the
\* collection col whose index holds keys: a matching document is left as it
\* is (matched, not modified), otherwise doc is inserted (upserted).
update_one_upsert(col, keys, doc) ==
    IF doc.items_hash \in keys
    THEN [col |-> col, keys |-> keys,
          upserted |-> 0, matched |-> 1, modified |-> 0]
    ELSE [col |-> Append(col, doc), keys |-> keys \cup {doc.items_hash},
          upserted |-> 1, matched |-> 0, modified |-> 0]

\* The statements applied as an ordered batch of plain inserts would be:
\* the first statement that meets a stored hash ends the batch.
RECURSIVE apply_ops_stop_at_duplicate(_, _, _, _, _)
apply_ops_stop_at_duplicate(col, keys, ops, from, to) ==
    IF from > to
    THEN [col |-> col, keys |-> keys,
          upserted |-> 0, matched |-> 0, modified |-> 0]
    ELSE IF from = to THEN update_one_upsert(col, keys, ops[from])
    ELSE LET mid  == (from + to) \div 2
             left == apply_ops_stop_at_duplicate(col, keys, ops, from, mid)
         IN  IF left.matched > 0 THEN left
             ELSE LET right == apply_ops_stop_at_duplicate(
                                   left.col, left.keys, ops, mid + 1, to)
                  IN  [col |-> right.col, keys |-> right.keys,
                       upserted |-> left.upserted + right.upserted,
                       matched  |-> right.matched,
                       modified |-> 0]

\* The statements ops[from..to] of a bulk_write applied one after another,
\* each to the collection and index the earlier ones left; the result
\* carries the collection, its index keys and the counts of the
\* BulkWriteResult.  (The range is halved, and the first half evaluated
\* before the second is entered, to keep the evaluation shallow.)
RECURSIVE apply_ops(_, _, _, _, _)
apply_ops(col, keys, ops, from, to) ==
    IF from > to
    THEN [col |-> col, keys |-> keys,
          upserted |-> 0, matched |-> 0, modified |-> 0]
    ELSE IF from = to THEN update_one_upsert(col, keys, ops[from])
    ELSE LET mid  == (from + to) \div 2
             left == apply_ops(col, keys, ops, from, mid)
         IN  IF Len(left.col) < 0 THEN left
             ELSE LET right == apply_ops(left.col, left.keys, ops, mid + 1, to)
                  IN  [col |-> right.col, keys |-> right.keys,
                       upserted |-> left.upserted + right.upserted,
                       matched  |-> left.matched + right.matched,
                       modified |-> left.modified + right.modified]

\* The count returned from matched_count instead of modified_count.
bulk_return_matched(result) == result.upserted + result.matched

\* subsequence_repo.py:107  `return result.upserted_count + result.modified_count`
bulk_return(result) == result.upserted + result.modified

\* ---------------------------------------------------------------- requests

\* The request tasks the service runs concurrently.
Requests == {"r1", "r2"}

RECURSIVE Reverse(_)
Reverse(s) == IF s = <<>> THEN <<>> ELSE Reverse(Tail(s)) \o <<Head(s)>>

\* A submission whose value set is S that is neither sorted nor free of
\* duplicates: S descending, its largest value given twice.
Submission(S) ==
    LET desc == Reverse(sorted(SetIter(S)))
    IN  IF desc = <<>> THEN <<>> ELSE <<Head(desc)>> \o desc

\* The submissions a request can carry: every value set over 1..MaxVal, the
\* shortest one that takes the batched path, and the two around the size
\* limit.
Inputs ==
    {Submission(S) : S \in SUBSET (1..MaxVal)}
        \cup {Submission(1..MaxEnum), Submission(1..limit_n),
              Submission(1..(limit_n + 1))}

NoId == [type |-> "none", v |-> 0]
NoResult == [kind |-> "none"]

VARIABLES
    db_sequences,     \* the "sequences" collection, in insertion order
    db_subsequences,  \* the "subsequences" collection, in insertion order
    next_oid,         \* the next ObjectId the store generates
    clock,            \* datetime.now(timezone.utc): advances with each read
    req,              \* per request: the locals of create_from_sequence
    first_writer,     \* history: items_hash -> the sequence id whose write of
                      \* that item-set reached the store first
    call              \* a direct call of a function: its arguments and result

vars == <<db_sequences, db_subsequences, next_oid, clock, req, first_writer,
          call>>

NoCall == [fn |-> "none", pc |-> "returned", arg |-> <<>>, arg2 |-> <<>>,
           out |-> <<>>, out2 |-> <<>>]

\* first_writer after the writes of the documents docs[from..to] reached
\* the store in that order.
note_writers(fw, docs, from, to) ==
    LET hs == {docs[k].items_hash : k \in from..to} \ DOMAIN fw
        first(h) == CHOOSE k \in from..to :
                       /\ docs[k].items_hash = h
                       /\ \A j \in from..(k - 1) : docs[j].items_hash # h
    IN  IF hs = {} THEN fw
        ELSE fw @@ [h \in hs |-> docs[first(h)].sequence_id.v]

StoreInit ==
    /\ db_sequences = <<>>
    /\ db_subsequences = <<>>
    /\ next_oid = 1
    /\ clock = 1
    /\ req = [r \in Requests |->
                [pc |-> "idle", items |-> <<>>, canon |-> <<>>,
                 seq_id |-> NoId, subsequences |-> <<>>, operations |-> <<>>,
                 i |-> 0, now |-> 0,
                 used_bulk |-> FALSE, upsert_calls |-> 0, bulk_calls |-> 0,
                 insert_calls |-> 0, upserted |-> 0, store_error |-> "none",
                 result |-> NoResult]]
    /\ first_writer = [h \in {} |-> 0]

Init == StoreInit /\ call = NoCall

\* The size check with the limit itself refused (>= for >).
size_check_limit_excluded(n) ==
    IF n = 0 THEN
        [kind |-> "ValueError", msg |-> "al menos un elemento",
         n |-> 0, limit |-> 0, total_subs |-> 0]
    ELSE IF n >= limit_n THEN
        [kind |-> "ValueError", msg |-> "demasiado grande",
         n |-> n, limit |-> limit_n, total_subs |-> Pow2(limit_n) - 1]
    ELSE [kind |-> "none"]

\* The size check without the test for the empty sequence.
size_check_no_empty_test(n) ==
    IF n > limit_n THEN
        [kind |-> "ValueError", msg |-> "demasiado grande",
         n |-> n, limit |-> limit_n, total_subs |-> Pow2(limit_n) - 1]
    ELSE [kind |-> "none"]

\* subsequence_service.py:38-47: the two checks made before anything is
\* written.
size_check(n) ==
    IF n = 0 THEN
        [kind |-> "ValueError", msg |-> "al menos un elemento",
         n |-> 0, limit |-> 0, total_subs |-> 0]
    ELSE IF n > limit_n THEN
        [kind |-> "ValueError", msg |-> "demasiado grande",
         n |-> n, limit |-> limit_n, total_subs |-> Pow2(limit_n) - 1]
    ELSE NoResult

\* The strategy test with the comparison turned round.
use_bulk_inverted(total_count) == total_count < bulk_threshold

\* subsequence_service.py:60: the strategy for total_count subsequences.
use_bulk(total_count) == total_count >= bulk_threshold

\* The document hashed per sequence instead of by content alone.
upsert_doc_per_sequence(sequence_id, items, now) ==
    [items |-> sorted(items),
     items_hash |-> hash_items(items) \o "@" \o str(sequence_id.v),
     sequence_id |-> ObjectId(sequence_id), created_at |-> now]

\* The document with its items sorted in descending order.
upsert_doc_descending(sequence_id, items, now) ==
    [items |-> Reverse(sorted(items)), items_hash |-> hash_items(items),
     sequence_id |-> ObjectId(sequence_id), created_at |-> now]

\* subsequence_repo.py:50-55: the document upsert_subsequence inserts.
upsert_doc(sequence_id, items, now) ==
    [items |-> sorted(items), items_hash |-> hash_items(items),
     sequence_id |-> ObjectId(sequence_id), created_at |-> now]

\* The document of a batch stamped with an id generated for it, not with
\* the id insert_sequence returned.
bulk_doc_new_id(sequence_id, items, now) ==
    [items |-> sorted(items), items_hash |-> hash_items(items),
     sequence_id |-> oid_to_str(NewObjectId(sequence_id.v + 1)),
     created_at |-> now]

\* subsequence_repo.py:82-89: the document of one UpdateOne of the batch.
bulk_doc(sequence_id, items, now) ==
    [items |-> sorted(items), items_hash |-> hash_items(items),
     sequence_id |-> sequence_id, created_at |-> now]

\* The response carrying the submitted list instead of the canonical one.
response_raw_items(q) ==
    [kind |-> "ok", id |-> q.seq_id, items |-> q.items,
     total_subsequences |-> Len(q.subsequences)]

\* subsequence_service.py:72
response(q) ==
    [kind |-> "ok", id |-> q.seq_id, items |-> q.canon,
     total_subsequences |-> Len(q.subsequences)]

\* create_from_sequence(items) up to its first await (service lines 36-50,
\* repo lines 31-35): canonicalize, check the size, build the sequence
\* document.
create_from_sequence(r, items) ==
    /\ req[r].pc = "idle"
    /\ LET canon == canonical_sequence(items)
           err   == size_check(Len(canon))
       IN  IF err.kind = "ValueError"
           THEN /\ req' = [req EXCEPT ![r].pc = "raised", ![r].items = items,
                                      ![r].canon = canon, ![r].result = err]
                /\ UNCHANGED clock
           ELSE /\ req' = [req EXCEPT ![r].pc = "insert_sequence",
                                      ![r].items = items, ![r].canon = canon,
                                      ![r].now = clock,
                                      ![r].insert_calls = @ + 1]
                /\ clock' = clock + 1
    /\ UNCHANGED <<db_sequences, db_subsequences, next_oid, first_writer, call>>

\* The store's insert of the sequence document (repo line 36), then the
\* service up to its next await (lines 52-65): enumerate, pick the strategy,
\* and start the first write (for the batched path, repo lines 73-101: the
\* UpdateOne operations, all stamped with one `now`).
insert_sequence(r) ==
    /\ req[r].pc = "insert_sequence"
    /\ LET q      == req[r]
           oid    == NewObjectId(next_oid)
           seq_id == oid_to_str(oid)
       IN  /\ db_sequences' = Append(db_sequences,
                  [_id |-> oid, items |-> q.canon, created_at |-> q.now])
           /\ next_oid' = next_oid + 1
           /\ IF Len(q.canon) > MaxEnum
              THEN /\ req' = [req EXCEPT ![r].pc = "enumerate",
                                         ![r].seq_id = seq_id]
                   /\ UNCHANGED clock
              ELSE \E subs \in {generate_subsequences(q.canon)} :
                       IF use_bulk(Len(subs))
                       THEN /\ req' = [req EXCEPT
                                   ![r].pc = "bulk_write",
                                   ![r].seq_id = seq_id,
                                   ![r].subsequences = subs,
                                   ![r].used_bulk = TRUE,
                                   ![r].bulk_calls = @ + 1,
                                   ![r].i = 1, ![r].now = clock,
                                   ![r].operations =
                                       [k \in 1..Len(subs) |->
                                           bulk_doc(seq_id, subs[k], clock)]]
                            /\ clock' = clock + 1
                       ELSE IF subs # <<>>
                       THEN /\ req' = [req EXCEPT
                                   ![r].pc = "upsert",
                                   ![r].seq_id = seq_id,
                                   ![r].subsequences = subs,
                                   ![r].upsert_calls = @ + 1,
                                   ![r].i = 1, ![r].now = clock]
                            /\ clock' = clock + 1
                       ELSE /\ req' = [req EXCEPT
                                   ![r].pc = "done",
                                   ![r].seq_id = seq_id,
                                   ![r].result =
                                       response([q EXCEPT !.seq_id = seq_id])]
                            /\ UNCHANGED clock
    /\ UNCHANGED <<db_subsequences, first_writer, call>>

\* The except clauses without the DuplicateKeyError one: every exception of
\* insert_one reaches the caller.
upsert_except_reraise(error) == error

\* A bare except that drops every exception of insert_one.
upsert_except_swallow_all(error) == "none"

\* The except clauses of upsert_subsequence (repo lines 59-64): what the
\* call raises when insert_one raised error.  DuplicateKeyError is logged
\* and dropped, anything else is raised again.
upsert_except(error) ==
    IF error = "DuplicateKeyError" THEN "none" ELSE error

\* upsert_subsequence after the store answered its insert_one with res
\* (repo lines 57-64), then the loop of the service (lines 64-65) up to the
\* next await, or the return; an exception leaves create_from_sequence,
\* which has no handler for it.
upsert_returns(r, res) ==
    LET q      == req[r]
        raised == upsert_except(res.error)
    IN  /\ db_subsequences' = res.col
        /\ IF raised # "none"
           THEN /\ req' = [req EXCEPT ![r].pc = "failed",
                                      ![r].store_error = res.error,
                                      ![r].result = [kind |-> raised]]
                /\ UNCHANGED clock
           ELSE IF q.i < Len(q.subsequences)
           THEN /\ req' = [req EXCEPT ![r].i = @ + 1, ![r].now = clock,
                                      ![r].upsert_calls = @ + 1,
                                      ![r].store_error = res.error]
                /\ clock' = clock + 1
           ELSE /\ req' = [req EXCEPT ![r].pc = "done",
                                      ![r].store_error = res.error,
                                      ![r].result = response(q)]
                /\ UNCHANGED clock

\* The store's insert_one of upsert_subsequence (repo line 58) and what
\* follows it.
upsert_subsequence(r) ==
    /\ req[r].pc = "upsert"
    /\ LET q   == req[r]
           doc == upsert_doc(q.seq_id, q.subsequences[q.i], q.now)
       IN  \E res \in {insert_one_sub(db_subsequences, doc)} :
           /\ upsert_returns(r, res)
           /\ first_writer' =
                 IF res.error = "none"
                 THEN note_writers(first_writer, <<doc>>, 1, 1)
                 ELSE first_writer
    /\ UNCHANGED <<db_sequences, next_oid, call>>

\* The store failing the insert_one of upsert_subsequence for a reason of
\* its own (connection lost, not primary, ...): nothing is written and
\* insert_one raises an error that is no DuplicateKeyError.
upsert_subsequence_store_failure(r) ==
    /\ req[r].pc = "upsert"
    /\ upsert_returns(r, [col |-> db_subsequences, error |-> "OperationFailure"])
    /\ UNCHANGED <<db_sequences, next_oid, first_writer, call>>

\* The store applying the next statements of the unordered bulk_write (repo
\* line 101); after the last one insert_subsequences_bulk returns
\* upserted_count + modified_count and the service returns.
bulk_write(r) ==
    /\ req[r].pc = "bulk_write"
    /\ LET q    == req[r]
           last == IF q.i + BulkChunk - 1 < Len(q.operations)
                   THEN q.i + BulkChunk - 1 ELSE Len(q.operations)
       IN  \E res \in {apply_ops(db_subsequences, index_keys(db_subsequences),
                               q.operations, q.i, last)} :
           /\ db_subsequences' = res.col
           /\ first_writer' = note_writers(first_writer, q.operations, q.i, last)
           /\ IF last < Len(q.operations)
              THEN req' = [req EXCEPT ![r].i = last + 1,
                                      ![r].upserted = @ + res.upserted]
              ELSE req' = [req EXCEPT ![r].pc = "done",
                                      ![r].upserted = @ + res.upserted,
                                      ![r].result = response(q)]
    /\ UNCHANGED <<db_sequences, next_oid, clock, call>>

\* The store failing the insert_one of insert_sequence (repo line 36):
\* nothing is written, the exception leaves insert_sequence and
\* create_from_sequence, neither of which has a handler.
insert_sequence_store_failure(r) ==
    /\ req[r].pc = "insert_sequence"
    /\ req' = [req EXCEPT ![r].pc = "failed",
                          ![r].store_error = "OperationFailure",
                          ![r].result = [kind |-> "OperationFailure"]]
    /\ UNCHANGED <<db_sequences, db_subsequences, next_oid, clock,
                   first_writer, call>>

\* The store failing the bulk_write (repo line 101) before its next
\* statements: the statements it has applied stay applied, the exception
\* leaves insert_subsequences_bulk and create_from_sequence.
bulk_write_store_failure(r) ==
    /\ req[r].pc = "bulk_write"
    /\ req' = [req EXCEPT ![r].pc = "failed",
                          ![r].store_error = "OperationFailure",
                          ![r].result = [kind |-> "OperationFailure"]]
    /\ UNCHANGED <<db_sequences, db_subsequences, next_oid, clock,
                   first_writer, call>>

\* No request is between its first await and its return.
Quiescent ==
    \A q \in Requests : req[q].pc \in {"idle", "done", "raised", "failed"}

\* Requests served concurrently.
Next ==
    \E r \in Requests :
        \/ \E items \in Inputs : create_from_sequence(r, items)
        \/ insert_sequence(r)
        \/ upsert_subsequence(r)
        \/ bulk_write(r)

Spec == Init /\ [][Next]_vars

\* The submissions of the one-at-a-time service: one of every length up to
\* MaxEnum, and the two around the size limit.
SeqInputs ==
    {Submission(1..k) : k \in 0..MaxEnum}
        \cup {Submission(1..limit_n), Submission(1..(limit_n + 1))}

\* Requests served one after the other: a request arrives when no other is
\* in flight.
SeqNext ==
    \E r \in Requests :
        \/ \E items \in SeqInputs : Quiescent /\ create_from_sequence(r, items)
        \/ insert_sequence(r)
        \/ upsert_subsequence(r)
        \/ bulk_write(r)

SeqSpec == Init /\ [][SeqNext]_vars

\* Requests served concurrently by a store that can fail an operation.
FaultNext ==
    \E r \in Requests :
        \/ \E items \in Inputs : create_from_sequence(r, items)
        \/ insert_sequence(r)
        \/ upsert_subsequence(r)
        \/ upsert_subsequence_store_failure(r)
        \/ bulk_write(r)
        \/ insert_sequence_store_failure(r)
        \/ bulk_write_store_failure(r)

FaultSpec == Init /\ [][FaultNext]_vars

\* ----------------------------------------------------------------- listing
\* latest_grouped is one aggregation over the "subsequences" collection;
\* each stage of its pipeline is an operator from the stage's input
\* documents to its output documents.

\* The largest limit a listing is asked for.
MaxLimit == 2

\* GET /subsequences: limit: int = Query(10, ge=1, le=50).
Limits == 1..MaxLimit

\* The order in which the aggregation reads the collection is the store's
\* choice: insertion order or its reverse.
ScanOrders == {"insertion", "reverse"}

\* A read that waits for the requests in flight: it shows the documents of
\* the requests that have returned and no others.
collection_scan_committed(col, order) ==
    SelectSeq(col, LAMBDA d :
        \E r \in Requests : /\ req[r].pc \in {"done", "failed"}
                            /\ req[r].seq_id.v = d.sequence_id.v)

collection_scan(col, order) ==
    IF order = "insertion" THEN col
    ELSE [i \in 1..Len(col) |-> col[Len(col) + 1 - i]]

\* {"$addFields": {"sequence_oid": {"$toObjectId": "$sequence_id"}}}
add_fields_stage(docs) ==
    [i \in 1..Len(docs) |->
        [items |-> docs[i].items, items_hash |-> docs[i].items_hash,
         sequence_id |-> docs[i].sequence_id,
         created_at |-> docs[i].created_at,
         sequence_oid |-> ObjectId(docs[i].sequence_id)]]

max(S) == CHOOSE x \in S : \A y \in S : y <= x

\* One output document of $group: the accumulators over the documents
\* whose sequence_id is key, in the order they were read.
group_accumulate(members, key) ==
    [_id |-> key,
     subsequences |-> [i \in 1..Len(members) |-> members[i].items],
     created_at |-> max({members[i].created_at : i \in 1..Len(members)}),
     sequence_oid |-> members[1].sequence_oid]

\* The group keys in the order the documents first show them.
RECURSIVE group_keys(_, _)
group_keys(docs, seen) ==
    LET rest == {i \in 1..Len(docs) : docs[i].sequence_id \notin seen}
    IN  IF rest = {} THEN <<>>
        ELSE LET i == CHOOSE k \in rest : \A j \in rest : k <= j
             IN  <<docs[i].sequence_id>>
                     \o group_keys(docs, seen \cup {docs[i].sequence_id})

\* {"$group": {"_id": "$sequence_id", "subsequences": {"$push": "$items"},
\*             "created_at": {"$max": "$created_at"},
\*             "sequence_oid": {"$first": "$sequence_oid"}}}
\* The key is the stored value of sequence_id, a string and an ObjectId
\* being different keys.
group_stage(docs) ==
    LET keys == group_keys(docs, {})
    IN  [k \in 1..Len(keys) |->
            group_accumulate(
                SelectSeq(docs, LAMBDA d : d.sequence_id = keys[k]), keys[k])]

newer_first(a, b) == a.created_at > b.created_at

sort_stage_ascending(groups) ==
    SortSeq(groups, LAMBDA a, b : a.created_at < b.created_at)

\* {"$sort": {"created_at": -1}}
sort_stage(groups) == SortSeq(groups, newer_first)

limit_stage_off_by_one(groups, limit) ==
    SubSeq(groups, 1, IF Len(groups) < limit + 1 THEN Len(groups)
                                               ELSE limit + 1)

\* {"$limit": limit}
limit_stage(groups, limit) ==
    SubSeq(groups, 1, IF Len(groups) < limit THEN Len(groups) ELSE limit)

lookup_stage_any_sequence(groups, seqs) ==
    [k \in 1..Len(groups) |->
        [_id |-> groups[k]._id, subsequences |-> groups[k].subsequences,
         created_at |-> groups[k].created_at,
         sequence_oid |-> groups[k].sequence_oid,
         seq |-> SubSeq(seqs, 1, 1)]]

\* {"$lookup": {"from": COL_SEQ, "localField": "sequence_oid",
\*              "foreignField": "_id", "as": "seq"}}
lookup_stage(groups, seqs) ==
    [k \in 1..Len(groups) |->
        [_id |-> groups[k]._id, subsequences |-> groups[k].subsequences,
         created_at |-> groups[k].created_at,
         sequence_oid |-> groups[k].sequence_oid,
         seq |-> SelectSeq(seqs,
                           LAMBDA s : s._id = groups[k].sequence_oid)]]

\* {"$unwind": "$seq"}: one document per element of seq, none for a group
\* whose lookup found no sequence.
unwind_stage(groups) ==
    Flatten([k \in 1..Len(groups) |->
                [j \in 1..Len(groups[k].seq) |->
                    [_id |-> groups[k]._id,
                     subsequences |-> groups[k].subsequences,
                     created_at |-> groups[k].created_at,
                     sequence_oid |-> groups[k].sequence_oid,
                     seq |-> groups[k].seq[j]]]])

\* {"$project": {"sequence": "$seq.items", "subsequences": 1, "_id": 0}}
project_stage(groups) ==
    [k \in 1..Len(groups) |->
        [sequence |-> groups[k].seq.items,
         subsequences |-> groups[k].subsequences]]

\* Python's order of two lists: the first differing element decides, and
\* a proper prefix comes first.
list_lt(a, b) ==
    \/ \E k \in 1..Len(a) :
          /\ k <= Len(b)
          /\ a[k] < b[k]
          /\ \A j \in 1..(k - 1) : a[j] = b[j]
    \/ /\ Len(a) < Len(b)
       /\ \A j \in 1..Len(a) : a[j] = b[j]

sort_key_lt_lexicographic(a, b) == list_lt(a, b)

\* key=lambda s: (len(s), s)
sort_key_lt(a, b) ==
    \/ Len(a) < Len(b)
    \/ Len(a) = Len(b) /\ list_lt(a, b)

\* The body of the loop of list_latest over one document.
list_latest_doc(d) ==
    [sequence |-> d.sequence,
     sub_sequences |-> SortSeq(d.subsequences, sort_key_lt)]

\* SubsequenceService.list_latest(limit): the aggregation, one operation of
\* the store, and the loop over its documents.  The value is the set of the
\* one record of the call, which keeps the documents between the stages of
\* the pipeline (each stage is computed once and bound).
list_latest_returns(limit, order) ==
    UNION {UNION {
        {[fn |-> "list_latest", pc |-> "returned",
          arg |-> limit, arg2 |-> order,
          grouped |-> grouped, unwound |-> unwound, docs |-> docs,
          out |-> [k \in 1..Len(docs) |-> list_latest_doc(docs[k])]] :
            docs \in {project_stage(unwound)}} :
        unwound \in {unwind_stage(lookup_stage(
                        limit_stage(grouped, limit), db_sequences))}} :
        grouped \in {sort_stage(group_stage(add_fields_stage(
                        collection_scan(db_subsequences, order))))}}

\* A direct call of list_latest.
list_latest(limit, order) ==
    /\ call = NoCall
    /\ \E listing \in list_latest_returns(limit, order) : call' = listing
    /\ UNCHANGED <<db_sequences, db_subsequences, next_oid, clock, req,
                   first_writer>>

\* Requests served one after the other and a listing, which can come at any
\* moment of a request and whose answer is looked at when it returns.
ListNext ==
    \/ call = NoCall /\ SeqNext
    \/ \E limit \in Limits : \E order \in ScanOrders :
          list_latest(limit, order)

ListSpec == Init /\ [][ListNext]_vars

\* ------------------------------------------------- the pure functions alone

\* The integers the lists handed to canonical_sequence are made of: the
\* positive ids and, since the function itself accepts any int, zero and a
\* negative one.
IntVals == (0 - 1)..MaxVal

\* The lists over V of length at most n.
Lists(V, n) == UNION {[1..k -> V] : k \in 0..n}

\* The strictly ascending lists over 1..MaxEnum.
AscendingLists == {sorted(SetIter(S)) : S \in SUBSET (1..MaxEnum)}

\* A call canonicalizing a list L and a list M.
CanonicalCall(L, M) ==
    [fn |-> "canonical_sequence", pc |-> "called", arg |-> L, arg2 |-> M,
     out |-> <<>>, out2 |-> <<>>]

\* A call enumerating the canonical sequence c.
GenerateCall(c) ==
    [fn |-> "generate_subsequences", pc |-> "called", arg |-> c,
     arg2 |-> <<>>, out |-> <<>>, out2 |-> <<>>]

\* A call hashing a list X and a list Y.
HashCall(X, Y) ==
    [fn |-> "_hash_items", pc |-> "called", arg |-> X, arg2 |-> Y,
     out |-> <<>>, out2 |-> <<>>]

\* A two-digit value, whose digits are values of the lists too.
TwoDigits == {11}

\* A list L and a list M made of values of L, both to canonicalize; or a
\* canonical sequence to enumerate; or a list X and a list Y, made of values
\* of X and a two-digit value, both to hash.
FnInit ==
    /\ StoreInit
    /\ \/ \E L \in Lists(IntVals, MaxLen) :
             \E M \in Lists(Range(L), MaxLen) : call = CanonicalCall(L, M)
       \/ \E c \in AscendingLists : call = GenerateCall(c)
       \/ \E X \in Lists(IntVals, MaxLen) :
             \E Y \in Lists(Range(X) \cup TwoDigits, MaxLen) :
                call = HashCall(X, Y)

canonical_sequence_returns ==
    /\ call.fn = "canonical_sequence" /\ call.pc = "called"
    /\ call' = [call EXCEPT !.pc = "returned",
                            !.out = canonical_sequence(call.arg),
                            !.out2 = canonical_sequence(call.arg2)]
    /\ UNCHANGED <<db_sequences, db_subsequences, next_oid, clock, req,
                   first_writer>>

generate_subsequences_returns ==
    /\ call.fn = "generate_subsequences" /\ call.pc = "called"
    /\ call' = [call EXCEPT !.pc = "returned",
                            !.out = generate_subsequences(call.arg)]
    /\ UNCHANGED <<db_sequences, db_subsequences, next_oid, clock, req,
                   first_writer>>

hash_items_returns ==
    /\ call.fn = "_hash_items" /\ call.pc = "called"
    /\ call' = [call EXCEPT !.pc = "returned",
                            !.out = hash_items(call.arg),
                            !.out2 = hash_items(call.arg2)]
    /\ UNCHANGED <<db_sequences, db_subsequences, next_oid, clock, req,
                   first_writer>>

FnNext ==
    \/ canonical_sequence_returns
    \/ generate_subsequences_returns
    \/ hash_items_returns

FnSpec == FnInit /\ [][FnNext]_vars

\* -------------------------------------------- direct calls of the repository

\* Most subsequences in the list of a direct call.
MaxBatch == 2

\* Most non-empty direct calls in a behaviour.
MaxCalls == 2

\* The item lists of a direct call: the subsequences over two values, in
\* ascending order or not.
BatchItems == {<<1>>, <<2>>, <<1, 2>>, <<2, 1>>}

\* The sequence ids of a direct call.
RepoSequenceIds == {oid_to_str(NewObjectId(1)), oid_to_str(NewObjectId(2))}

\* insert_subsequences_bulk(sequence_id, subsequences) called on its own
\* (repo lines 66-107), the whole call in one step: `before` keeps the
\* collection the call found, bulk_writes counts its calls of the store.
insert_subsequences_bulk(sequence_id, subsequences) ==
    /\ clock <= MaxCalls
    /\ IF subsequences = <<>>
       THEN /\ call' = [fn |-> "insert_subsequences_bulk", pc |-> "returned",
                        arg |-> subsequences, arg2 |-> sequence_id,
                        before |-> db_subsequences, bulk_writes |-> 0,
                        modified |-> 0, out |-> 0]
            /\ UNCHANGED <<db_subsequences, clock>>
       ELSE \E operations \in
                  {[k \in 1..Len(subsequences) |->
                       bulk_doc(sequence_id, subsequences[k], clock)]} :
              \E result \in {apply_ops(db_subsequences,
                                       index_keys(db_subsequences),
                                       operations, 1, Len(operations))} :
                 /\ db_subsequences' = result.col
                 /\ clock' = clock + 1
                 /\ call' = [fn |-> "insert_subsequences_bulk",
                             pc |-> "returned",
                             arg |-> subsequences, arg2 |-> sequence_id,
                             before |-> db_subsequences, bulk_writes |-> 1,
                             modified |-> result.modified,
                             out |-> bulk_return(result)]
    /\ UNCHANGED <<db_sequences, next_oid, req, first_writer>>

RepoNext ==
    \E sequence_id \in RepoSequenceIds :
        \E subsequences \in Lists(BatchItems, MaxBatch) :
            insert_subsequences_bulk(sequence_id, subsequences)

RepoSpec == Init /\ [][RepoNext]_vars

\* ------------------------------------------------------------ the endpoints
\* An HTTP exchange is received and then served by its route: FastAPI
\* resolves the dependencies of the route (the bearer scheme and jwt_guard),
\* validates the declared parameters and the body, and calls the endpoint
\* function.  call holds the exchange of every connection.

Paths == {"POST /sequences", "GET /subsequences", "GET /health",
          "POST /auth/token"}

\* The Authorization header of a request: absent, a bearer token that does
\* not verify, one that has expired, one that verifies.
Credentials == {"none", "invalid", "expired", "valid"}

\* The bodies of POST /sequences: the lists of at most two integers and the
\* shortest list that takes the batched path.
Payloads ==
    {<<>>} \cup {<<a>> : a \in IntVals} \cup {<<a, b>> : a, b \in IntVals}
        \cup {Submission(1..MaxEnum)}

\* The limit parameters of GET /subsequences: those of a listing and one on
\* each side of the range 1..50.
QueryLimits == Limits \cup {0, 51}

NoExchange ==
    [path |-> "none", credentials |-> "none", items |-> <<>>, limit |-> 0,
     status |-> 0, detail |-> "none", body |-> <<>>]

Exchanges ==
    {[NoExchange EXCEPT !.path = "POST /sequences", !.credentials = c,
                        !.items = items] :
        c \in Credentials, items \in Payloads}
    \cup {[NoExchange EXCEPT !.path = "GET /subsequences", !.credentials = c,
                             !.limit = limit] :
             c \in Credentials, limit \in QueryLimits}
    \cup {[NoExchange EXCEPT !.path = p, !.credentials = c] :
             p \in {"GET /health", "POST /auth/token"}, c \in Credentials}

ApiInit ==
    /\ StoreInit
    /\ call = [fn |-> "http", pc |-> "returned",
               exchange |-> [r \in Requests |-> NoExchange]]

\* The answer with which the exchange of r ends.
respond(r, status, detail, body) ==
    call' = [call EXCEPT !.exchange[r].status = status,
                         !.exchange[r].detail = detail,
                         !.exchange[r].body = body]

NothingElseChanges ==
    UNCHANGED <<db_sequences, db_subsequences, next_oid, clock, req,
                first_writer>>

\* A request arrives on the connection r.
http_request(r, ex) ==
    /\ call.exchange[r] = NoExchange
    /\ call' = [call EXCEPT !.exchange[r] = ex]
    /\ NothingElseChanges

\* The exchange of r waits for its route.
Pending(r, path) ==
    /\ call.exchange[r].path = path
    /\ call.exchange[r].status = 0
    /\ req[r].pc = "idle"

\* jwt.decode without the check of the exp claim.
jwt_decode_ignore_expiry(token) ==
    IF token = "invalid" THEN "InvalidTokenError" ELSE "none"

\* jwt.decode(token, JWT_SECRET, algorithms=[JWT_ALG]): the exception it
\* raises.
jwt_decode(token) ==
    IF token = "expired" THEN "ExpiredSignatureError"
    ELSE IF token = "invalid" THEN "InvalidTokenError"
    ELSE "none"

\* Depends(bearer) with auto_error=True, then jwt_guard: the status and the
\* detail of the HTTPException raised, status 0 when the guard returns True.
jwt_guard(credentials) ==
    IF credentials = "none"
    THEN [status |-> 403, detail |-> "Not authenticated"]
    ELSE IF jwt_decode(credentials) = "ExpiredSignatureError"
    THEN [status |-> 401, detail |-> "Token expirado"]
    ELSE IF jwt_decode(credentials) = "InvalidTokenError"
    THEN [status |-> 401, detail |-> "Token invalido"]
    ELSE [status |-> 0, detail |-> "none"]

\* The validator with `item < 0` for `item <= 0`.
validate_positive_ids_allow_zero(v) == \A idx \in 1..Len(v) : v[idx] >= 0

\* SequenceIn.validate_positive_ids: no item is <= 0.
validate_positive_ids(v) == \A idx \in 1..Len(v) : v[idx] > 0

\* SequenceIn: items: list[int] = Field(..., min_length=1) and the validator.
SequenceIn(items) == Len(items) >= 1 /\ validate_positive_ids(items)

\* limit: int = Query(10, ge=1, le=50)
limit_query(limit) == limit >= 1 /\ limit <= 50

\* POST /sequences up to the first await of the service: the guard, the
\* validation of the body, and create_sequences calling
\* create_from_sequence.
create_sequences(r) ==
    /\ Pending(r, "POST /sequences")
    /\ LET ex    == call.exchange[r]
           guard == jwt_guard(ex.credentials)
       IN  IF guard.status # 0
           THEN respond(r, guard.status, guard.detail, <<>>)
                    /\ NothingElseChanges
           ELSE IF ~SequenceIn(ex.items)
           THEN respond(r, 422, "RequestValidationError", <<>>)
                    /\ NothingElseChanges
           ELSE create_from_sequence(r, ex.items)

\* create_sequences after create_from_sequence returned or raised: the
\* result, or 422 for a ValueError.
create_sequences_returns(r) ==
    /\ call.exchange[r].path = "POST /sequences"
    /\ call.exchange[r].status = 0
    /\ req[r].pc \in {"done", "raised"}
    /\ IF req[r].pc = "done"
       THEN respond(r, 200, "none", req[r].result)
       ELSE respond(r, 422, "ValueError", <<>>)
    /\ NothingElseChanges

\* GET /subsequences: the guard, the validation of limit, and
\* list_subsequences returning list_latest(limit).
list_subsequences(r) ==
    /\ Pending(r, "GET /subsequences")
    /\ LET ex    == call.exchange[r]
           guard == jwt_guard(ex.credentials)
       IN  IF guard.status # 0
           THEN respond(r, guard.status, guard.detail, <<>>)
           ELSE IF ~limit_query(ex.limit)
           THEN respond(r, 422, "RequestValidationError", <<>>)
           ELSE \E order \in ScanOrders :
                \E listing \in list_latest_returns(ex.limit, order) :
                    respond(r, 200, "none", listing.out)
    /\ NothingElseChanges

\* GET /health: the ping of the store answers or raises.
health_check(r) ==
    /\ Pending(r, "GET /health")
    /\ \/ respond(r, 200, "healthy", <<>>)
       \/ respond(r, 503, "unhealthy", <<>>)
    /\ NothingElseChanges

\* POST /auth/token: a new token.
issue_token(r) ==
    /\ Pending(r, "POST /auth/token")
    /\ respond(r, 200, "bearer", <<>>)
    /\ NothingElseChanges

\* The application: two connections, each with one exchange, served
\* concurrently.
ApiNext ==
    \E r \in Requests :
        \/ \E ex \in Exchanges : http_request(r, ex)
        \/ create_sequences(r)
        \/ insert_sequence(r)
        \/ upsert_subsequence(r)
        \/ bulk_write(r)
        \/ create_sequences_returns(r)
        \/ list_subsequences(r)
        \/ health_check(r)
        \/ issue_token(r)

ApiSpec == ApiInit /\ [][ApiNext]_vars

\* ------------------------------------------------------------------ claims

StrictlyAscending(s) == \A i \in 1..(Len(s) - 1) : s[i] < s[i + 1]

\* The number of distinct values of a submission.
Distinct(items) == Cardinality(Range(items))

\* The stored subsequence documents whose items are the item-set S.
DocsOf(S) ==
    {i \in 1..Len(db_subsequences) : Range(db_subsequences[i].items) = S}

\* C1: in every reachable state no two stored subsequence documents have the
\* same items_hash, and no two hold the same item-set, whichever requests
\* and write paths produced them: the stored documents have as many
\* different hashes, and as many different item-sets, as there are documents.
C1_HashGloballyUnique ==
    LET stored == 1..Len(db_subsequences)
    IN  /\ Cardinality({db_subsequences[i].items_hash : i \in stored})
              = Len(db_subsequences)
        /\ Cardinality({Range(db_subsequences[i].items) : i \in stored})
              = Len(db_subsequences)

\* C1 witness: a batched request and an individually writing request with
\* common values have both completed.
C1_Witness ==
    \E r, q \in Requests :
        /\ req[r].pc = "done" /\ req[q].pc = "done"
        /\ req[r].used_bulk /\ ~req[q].used_bulk
        /\ Range(req[r].canon) \cap Range(req[q].canon) # {}
        /\ Len(db_subsequences) > Len(req[r].subsequences) - 1

\* C2: when two requests whose canonical sequences share item-sets have both
\* completed, every shared item-set has exactly one stored document, and its
\* sequence_id is the id of the request whose write of it reached the store
\* first.
C2_SharedSubsetFirstWriter ==
    \A r, q \in Requests :
        (r # q /\ req[r].pc = "done" /\ req[q].pc = "done") =>
            \A S \in (SUBSET (Range(req[r].canon) \cap Range(req[q].canon)))
                        \ {{}} :
                /\ Cardinality(DocsOf(S)) = 1
                /\ \A i \in DocsOf(S) :
                      LET d == db_subsequences[i]
                      IN  /\ d.items_hash \in DOMAIN first_writer
                          /\ d.sequence_id.v = first_writer[d.items_hash]
                          /\ d.sequence_id.v \in
                                 {req[r].seq_id.v, req[q].seq_id.v}

\* C2 witness: both requests completed and each of them owns one of the
\* item-sets they share, so their writes were interleaved.
C2_Witness ==
    \E r, q \in Requests :
        /\ r # q /\ req[r].pc = "done" /\ req[q].pc = "done"
        /\ \E i, j \in 1..Len(db_subsequences) :
              LET common == Range(req[r].canon) \cap Range(req[q].canon)
              IN  /\ Range(db_subsequences[i].items) \subseteq common
                  /\ Range(db_subsequences[j].items) \subseteq common
                  /\ db_subsequences[i].sequence_id.v = req[r].seq_id.v
                  /\ db_subsequences[j].sequence_id.v = req[q].seq_id.v

\* C3: once a submission has completed, every step of another request that
\* submits the same set of values leaves the subsequences collection as it
\* is, and adds one sequence document in its insert_sequence and none
\* elsewhere.
C3_Resubmission ==
    [][\A r \in Requests :
          (/\ req'[r] # req[r]
           /\ \E q \in Requests \ {r} :
                 /\ req[q].pc = "done"
                 /\ Range(req[q].items) = Range(req'[r].items))
          => /\ db_subsequences' = db_subsequences
             /\ Len(db_sequences') = Len(db_sequences)
                    + (IF req[r].pc = "insert_sequence" THEN 1 ELSE 0)]_vars

\* C3 witness: a second submission of the same values completed, its
\* sequence document being newer than every stored subsequence document.
C3_Witness ==
    \E r, q \in Requests :
        /\ r # q /\ req[r].pc = "done" /\ req[q].pc = "done"
        /\ Range(req[r].items) = Range(req[q].items)
        /\ Len(db_sequences) = 2
        /\ \E k \in 1..Len(db_sequences) :
              /\ oid_to_str(db_sequences[k]._id) = req[r].seq_id
              /\ \A i \in 1..Len(db_subsequences) :
                    db_subsequences[i].created_at < db_sequences[k].created_at
        /\ Len(db_subsequences) = Pow2(Distinct(req[r].items)) - 1

\* C4: a request with more than 18 distinct values ends in the size-limit
\* error reporting n, 18 and 262143, having called no store operation and
\* stored no sequence; a request with exactly 18 distinct values is not
\* refused.
C4_SizeLimit ==
    \A r \in Requests :
        req[r].pc # "idle" =>
            /\ Distinct(req[r].items) > 18 =>
                  /\ req[r].pc = "raised"
                  /\ req[r].result.kind = "ValueError"
                  /\ req[r].result.msg = "demasiado grande"
                  /\ req[r].result.n = Distinct(req[r].items)
                  /\ req[r].result.limit = 18
                  /\ req[r].result.total_subs = 262143
                  /\ req[r].insert_calls = 0 /\ req[r].upsert_calls = 0
                  /\ req[r].bulk_calls = 0
                  /\ \A k \in 1..Len(db_sequences) :
                        Range(db_sequences[k].items) # Range(req[r].items)
                  /\ \A i \in 1..Len(db_subsequences) :
                        Len(db_subsequences[i].items) < 19
            /\ Distinct(req[r].items) = 18 =>
                  /\ req[r].pc # "raised"
                  /\ req[r].result.kind # "ValueError"

\* C4 witness: a request of 19 distinct values was refused and one of 18 was
\* accepted and has its sequence stored.
C4_Witness ==
    \E r, q \in Requests :
        /\ Distinct(req[r].items) = 19 /\ req[r].pc = "raised"
        /\ Distinct(req[q].items) = 18 /\ req[q].pc = "enumerate"
        /\ \E k \in 1..Len(db_sequences) :
              oid_to_str(db_sequences[k]._id) = req[q].seq_id

\* C5: a request whose canonical form is empty ends in the "al menos un
\* elemento" error without having called insert_sequence, and no empty
\* sequence is stored.
C5_EmptyRefused ==
    \A r \in Requests :
        (req[r].pc # "idle" /\ Range(req[r].items) = {}) =>
            /\ req[r].pc = "raised"
            /\ req[r].result.kind = "ValueError"
            /\ req[r].result.msg = "al menos un elemento"
            /\ req[r].insert_calls = 0 /\ req[r].upsert_calls = 0
            /\ req[r].bulk_calls = 0
            /\ req[r].seq_id = NoId
            /\ \A k \in 1..Len(db_sequences) : db_sequences[k].items # <<>>

\* C5 witness: the empty submission was refused while another request had
\* already written to the store.
C5_Witness ==
    \E r, q \in Requests :
        /\ req[r].pc = "raised" /\ req[r].items = <<>>
        /\ req[q].pc = "done" /\ Len(db_sequences) = 1
        /\ db_subsequences # <<>>

\* The non-empty subsets of the values of a submission.
NonEmptySubsets(items) == (SUBSET Range(items)) \ {{}}

\* C6: a completed request returns the id of the one stored sequence
\* document that its insert_sequence created, items that are the strictly
\* ascending list of the submitted values, and total_subsequences = 2^n - 1
\* for n distinct values, 1 <= n <= 18, whatever the store held before.
C6_Response ==
    \A r \in Requests :
        req[r].pc = "done" =>
            LET res == req[r].result
                n   == Distinct(req[r].items)
                own == {k \in 1..Len(db_sequences) :
                           oid_to_str(db_sequences[k]._id) = res.id}
            IN  /\ res.kind = "ok"
                /\ res.id = req[r].seq_id
                /\ Cardinality(own) = 1
                /\ \A k \in own : db_sequences[k].items = res.items
                /\ StrictlyAscending(res.items)
                /\ Range(res.items) = Range(req[r].items)
                /\ n \in 1..18
                /\ res.total_subsequences = Pow2(n) - 1

\* C6 witness: two submissions of the same six values have completed; the
\* second found all 63 item-sets stored and still reports 63.
C6_Witness ==
    \E r, q \in Requests :
        /\ r # q /\ req[r].pc = "done" /\ req[q].pc = "done"
        /\ Distinct(req[r].items) = 6 /\ Distinct(req[q].items) = 6
        /\ req[r].result.total_subsequences = 63
        /\ req[q].result.total_subsequences = 63
        /\ req[r].result.id # req[q].result.id
        /\ Len(db_subsequences) = 63

\* C7: a request past its strategy choice has used exactly one strategy:
\* with fewer than 100 subsequences one upsert_subsequence call per
\* subsequence (all of them once it is done) and no bulk call; with 100 or
\* more one insert_subsequences_bulk call carrying every subsequence and no
\* upsert call.  Lengths 1..6 take the first strategy, 7..18 the second.
C7_OneStrategy ==
    /\ \A n \in 1..18 : use_bulk(Pow2(n) - 1) <=> n >= 7
    /\ \A r \in Requests :
          req[r].pc \in {"upsert", "bulk_write", "done"} =>
              LET q     == req[r]
                  total == Pow2(Distinct(q.items)) - 1
              IN  /\ total < 100 =>
                        /\ q.bulk_calls = 0 /\ ~q.used_bulk
                        /\ q.operations = <<>>
                        /\ q.upsert_calls = (IF q.pc = "done" THEN total ELSE q.i)
                        /\ q.upsert_calls <= total
                  /\ total >= 100 =>
                        /\ q.bulk_calls = 1 /\ q.used_bulk
                        /\ q.upsert_calls = 0
                        /\ Len(q.operations) = total
                        /\ {Range(q.operations[k].items) :
                               k \in 1..Len(q.operations)}
                             = NonEmptySubsets(q.items)
                  /\ q.pc = "done" =>
                        \A S \in NonEmptySubsets(q.items) : DocsOf(S) # {}

\* C7 witness: a request of 7 values completed through one bulk call and a
\* request of 6 values through 63 upsert calls.
C7_Witness ==
    \E r, q \in Requests :
        /\ req[r].pc = "done" /\ Distinct(req[r].items) = 7
        /\ req[r].bulk_calls = 1 /\ req[r].upsert_calls = 0
        /\ req[q].pc = "done" /\ Distinct(req[q].items) = 6
        /\ req[q].bulk_calls = 0 /\ req[q].upsert_calls = 63

\* a comes before b in the order "shorter first, then lexicographic".
SizeThenLex(a, b) ==
    \/ Len(a) < Len(b)
    \/ /\ Len(a) = Len(b)
       /\ \E k \in 1..Len(a) :
             /\ a[k] < b[k]
             /\ \A j \in 1..(k - 1) : a[j] = b[j]

\* C8: for a strictly ascending sequence of length n generate_subsequences
\* yields 2^n - 1 lists, each non-empty, strictly ascending and made of
\* values of the sequence, no two equal, shorter ones first and equally
\* long ones in lexicographic order; nothing for n = 0 and the singleton
\* for n = 1.
C8_Enumeration ==
    (call.fn = "generate_subsequences" /\ call.pc = "returned") =>
        LET c   == call.arg
            out == call.out
        IN  /\ Len(out) = Pow2(Len(c)) - 1
            /\ \A i \in 1..Len(out) :
                  /\ out[i] # <<>>
                  /\ StrictlyAscending(out[i])
                  /\ Range(out[i]) \subseteq Range(c)
            /\ \A i, j \in 1..Len(out) :
                  i < j => (out[i] # out[j] /\ SizeThenLex(out[i], out[j]))
            /\ Len(c) = 0 => out = <<>>
            /\ Len(c) = 1 => out = <<c>>

\* C8 witness: the enumeration of a four-element sequence with gaps has
\* returned its 15 subsequences.
C8_Witness ==
    /\ call.fn = "generate_subsequences" /\ call.pc = "returned"
    /\ call.arg = <<1, 3, 4, 7>>
    /\ Len(call.out) = 15
    /\ call.out[5] = <<1, 3>> /\ call.out[15] = <<1, 3, 4, 7>>

\* C9: canonical_sequence returns a strictly ascending list holding exactly
\* the values of its input, the empty list for the empty input.
C9_Canonical ==
    (call.fn = "canonical_sequence" /\ call.pc = "returned") =>
        /\ StrictlyAscending(call.out)
        /\ Range(call.out) = Range(call.arg)
        /\ call.arg = <<>> => call.out = <<>>

\* C9 witness: an unsorted list with a duplicate and a negative value has
\* been canonicalized.
C9_Witness ==
    /\ call.fn = "canonical_sequence" /\ call.pc = "returned"
    /\ call.arg = <<2, 0 - 1, 2>>
    /\ call.out = <<0 - 1, 2>>

\* C10 as stated: for a non-empty L with a positive value, the canonical
\* form of L equals that of any list made of exactly L's positive values.
C10_Original ==
    (/\ call.fn = "canonical_sequence" /\ call.pc = "returned"
     /\ call.arg # <<>>
     /\ \E x \in Range(call.arg) : x > 0
     /\ Range(call.arg2) = {x \in Range(call.arg) : x > 0})
    => call.out = call.out2

\* C10 amended: for a non-empty L, the canonical form of L equals that of
\* any list made of exactly L's values, positive or not, in any order and
\* multiplicity.
C10_SameValuesSameCanonical ==
    (/\ call.fn = "canonical_sequence" /\ call.pc = "returned"
     /\ call.arg # <<>>
     /\ Range(call.arg2) = Range(call.arg))
    => call.out = call.out2

\* C10 witness: a list and a longer, differently ordered list of the same
\* values, one of them not positive, have the same canonical form.
C10_Witness ==
    /\ call.fn = "canonical_sequence" /\ call.pc = "returned"
    /\ Range(call.arg2) = Range(call.arg)
    /\ Len(call.arg2) > Len(call.arg)
    /\ call.arg2[1] # call.arg[1]
    /\ \E x \in Range(call.arg) : x < 1
    /\ \E x \in Range(call.arg) : x > 0
    /\ call.out = call.out2

\* The number of times the value v occurs in the list s.
Count(s, v) == Cardinality({i \in DOMAIN s : s[i] = v})

\* C11 as stated: the hashes of two lists are equal exactly when the lists
\* have the same set of values.
C11_Original ==
    (call.fn = "_hash_items" /\ call.pc = "returned") =>
        (call.out = call.out2 <=> Range(call.arg) = Range(call.arg2))

\* C11 amended: the hashes of two lists are equal exactly when the lists
\* hold the same values the same number of times, in whatever order; for
\* two lists without repeated values, exactly when they have the same set
\* of values.
C11_HashIffSameSortedList ==
    (call.fn = "_hash_items" /\ call.pc = "returned") =>
        LET X == call.arg
            Y == call.arg2
            same == \A v \in Range(X) \cup Range(Y) : Count(X, v) = Count(Y, v)
        IN  /\ call.out = call.out2 <=> same
            /\ (Cardinality(Range(X)) = Len(X) /\ Cardinality(Range(Y)) = Len(Y))
                  => (call.out = call.out2 <=> Range(X) = Range(Y))

\* C11 witness: two differently ordered lists of the same values got the
\* same hash.
C11_Witness ==
    /\ call.fn = "_hash_items" /\ call.pc = "returned"
    /\ call.arg = <<2, 0 - 1, 1>> /\ call.arg2 = <<1, 2, 0 - 1>>
    /\ call.out = call.out2
    /\ call.out = "sha256(-1,1,2)"

\* C12: a step of upsert_subsequence on an item-set that is already stored,
\* the store not failing, finds the duplicate, leaves the collection as it
\* is and returns, the request going on to its next subsequence or to its
\* response; a step in which the store fails for another reason writes
\* nothing and ends the request with that error.
C12_UpsertDuplicateNoOp ==
    [][\A r \in Requests :
          (req[r].pc = "upsert" /\ req'[r] # req[r]) =>
              LET S      == Range(req[r].subsequences[req[r].i])
                  stored == DocsOf(S) # {}
                  error  == req'[r].store_error
              IN  /\ error \in {"none", "DuplicateKeyError", "OperationFailure"}
                  /\ (stored /\ error # "OperationFailure") =>
                        /\ error = "DuplicateKeyError"
                        /\ db_subsequences' = db_subsequences
                        /\ req'[r].pc \in {"upsert", "done"}
                        /\ req'[r].result.kind \in {"none", "ok"}
                        /\ req'[r].pc = "upsert" => req'[r].i = req[r].i + 1
                  /\ error = "OperationFailure" =>
                        /\ db_subsequences' = db_subsequences
                        /\ req'[r].pc = "failed"
                        /\ req'[r].result.kind = "OperationFailure"]_vars

\* C12 witness: a request completed after its upsert met a duplicate that
\* the other request had stored before a store failure ended it.
C12_Witness ==
    \E r, q \in Requests :
        /\ req[r].pc = "done" /\ req[r].store_error = "DuplicateKeyError"
        /\ req[r].upsert_calls = 1 /\ Len(db_subsequences) = 1
        /\ req[q].pc = "failed" /\ req[q].store_error = "OperationFailure"
        /\ req[q].result.kind = "OperationFailure"

\* The stored subsequence documents, as a set.
StoredDocs(col) == {col[i] : i \in 1..Len(col)}

\* C13: in every step each subsequence document stored before it is still
\* stored after it with the same items, items_hash, sequence_id and
\* created_at, and no document added by the step holds an item-set that was
\* stored before: a write to a stored item-set changes nothing.
C13_FirstWriterWins ==
    [][LET old == StoredDocs(db_subsequences)
           new == StoredDocs(db_subsequences')
       IN  /\ old \subseteq new
           /\ \A d \in new \ old :
                 Range(d.items) \notin {Range(e.items) : e \in old}]_vars

\* C13 witness: a batched request completed having created fewer documents
\* than it carried statements, and the older documents it met still belong
\* to the other request, which wrote individually.
C13_Witness ==
    \E r, q \in Requests :
        /\ req[r].pc = "done" /\ req[r].used_bulk
        /\ req[r].upserted < Len(req[r].operations)
        /\ req[q].pc = "done" /\ ~req[q].used_bulk
        /\ \E i \in 1..Len(db_subsequences) :
              /\ db_subsequences[i].sequence_id.v = req[q].seq_id.v
              /\ db_subsequences[i].created_at < req[r].now

\* C14: a returned direct call of insert_subsequences_bulk gave the number
\* of documents it created, which is the number of different item-sets of
\* its list that the collection did not hold when it was called; nothing
\* was modified; for the empty list it gave 0 and never called the store.
C14_BulkCount ==
    (call.fn = "insert_subsequences_bulk" /\ call.pc = "returned") =>
        LET list   == call.arg
            before == {Range(d.items) : d \in StoredDocs(call.before)}
            sets   == {Range(list[k]) : k \in 1..Len(list)}
        IN  /\ call.out = Cardinality(sets \ before)
            /\ call.out = Len(db_subsequences) - Len(call.before)
            /\ call.modified = 0
            /\ list = <<>> =>
                  /\ call.out = 0 /\ call.bulk_writes = 0
                  /\ db_subsequences = call.before
            /\ list # <<>> => call.bulk_writes = 1

\* C14 witness: a call whose list names the item-set {1, 2} twice, in two
\* orders, on a collection that held another item-set, returned 1.
C14_Witness ==
    /\ call.fn = "insert_subsequences_bulk" /\ call.pc = "returned"
    /\ call.arg = <<<<2, 1>>, <<1, 2>>>>
    /\ Len(call.before) = 1
    /\ call.out = 1

\* C15: with a store that does not fail, no request ends in a store error,
\* whatever the other request wrote or is writing: the only errors are the
\* size refusals, every store answer is a success or a duplicate that was
\* dropped, and a completed request has every one of its item-sets stored,
\* by itself or by the other request.
C15_DuplicateNeverAnError ==
    \A r \in Requests :
        /\ req[r].pc # "failed"
        /\ req[r].result.kind \in {"none", "ok", "ValueError"}
        /\ req[r].store_error \in {"none", "DuplicateKeyError"}
        /\ req[r].pc = "raised" => req[r].insert_calls = 0
        /\ req[r].pc = "done" =>
              /\ req[r].result.kind = "ok"
              /\ \A S \in NonEmptySubsets(req[r].canon) : DocsOf(S) # {}

\* C15 witness: a batched and an individually writing request ran
\* concurrently and both completed; the batch met the document the other
\* had stored and created its other 126, and the other then met duplicates.
C15_Witness ==
    \E r, q \in Requests :
        /\ req[r].pc = "done" /\ req[r].used_bulk
        /\ req[r].upserted = 126 /\ Len(req[r].operations) = 127
        /\ req[q].pc = "done" /\ req[q].upsert_calls = 3
        /\ req[q].store_error = "DuplicateKeyError"
        /\ db_sequences[1]._id.v = req[r].seq_id.v
        /\ db_subsequences[1].sequence_id.v = req[q].seq_id.v

\* The last listing has returned.
Listed == call.fn = "list_latest" /\ call.pc = "returned"

\* The values of sequence_id among the stored subsequences.
StoredKeys == {db_subsequences[i].sequence_id : i \in 1..Len(db_subsequences)}

\* C16: list_latest(limit) never returns more than limit groups.
C16_AtMostLimit ==
    Listed => Len(call.out) <= call.arg

\* A listing with limit 1 while the subsequences of two sequences are
\* stored returned one group.
C16_Witness ==
    /\ Listed /\ call.arg = 1
    /\ Cardinality(StoredKeys) = 2
    /\ Len(call.out) = 1

\* C17: the sub_sequences of every returned group are in the order
\* "shorter first, then lexicographic", in whichever order the store
\* pushed them into the group, and they are the pushed lists: as many, and
\* each as often as it was pushed.
C17_SubSequencesSorted ==
    Listed =>
        \A k \in 1..Len(call.out) :
            LET subs == call.out[k].sub_sequences
                pushed == call.docs[k].subsequences
            IN  /\ \A i \in 1..(Len(subs) - 1) :
                      SizeThenLex(subs[i], subs[i + 1]) \/ subs[i] = subs[i + 1]
                /\ Len(subs) = Len(pushed)
                /\ \A x \in Range(subs) \cup Range(pushed) :
                      Count(subs, x) = Count(pushed, x)

\* The store pushed the seven subsequences of a sequence longest first and
\* the listing returned them shortest first.
C17_Witness ==
    /\ Listed /\ call.arg2 = "reverse"
    /\ \E k \in 1..Len(call.out) :
          /\ Len(call.docs[k].subsequences) = 7
          /\ call.docs[k].subsequences[1] = <<1, 2, 3>>
          /\ call.out[k].sub_sequences[1] = <<1>>
          /\ call.out[k].sub_sequences[7] = <<1, 2, 3>>
          /\ call.out[k].sub_sequences # call.docs[k].subsequences

\* Every request so far has returned its answer: nothing is in flight and
\* nothing was refused.
OnlySuccessfulCreates ==
    \A r \in Requests : req[r].pc \in {"idle", "done"}

\* The sequences a listing returned groups for, by their _id.
ListedSequences == {call.unwound[k].seq._id : k \in 1..Len(call.unwound)}

\* The m sequences created last.
LastCreated(m) ==
    {db_sequences[i]._id :
        i \in (Len(db_sequences) - m + 1)..Len(db_sequences)}

\* C18: after successful creates, list_latest(limit) returns one group for
\* each of the limit sequences created last, for every stored sequence when
\* there are at most limit of them, and the group holds the item-sets of all
\* the stored subsequences that carry the sequence's id.
C18_OneGroupPerSequence ==
    (Listed /\ OnlySuccessfulCreates) =>
        LET n == Len(db_sequences)
            m == IF n < call.arg THEN n ELSE call.arg
        IN  /\ Len(call.out) = m
            /\ ListedSequences = LastCreated(m)
            /\ \A k \in 1..Len(call.out) :
                  Range(call.out[k].sub_sequences) =
                      {db_subsequences[i].items :
                          i \in {j \in 1..Len(db_subsequences) :
                                   ObjectId(db_subsequences[j].sequence_id)
                                       = call.unwound[k].seq._id}}

\* Two creates were answered, the second for a sequence whose item-sets were
\* all stored by the first, and a listing with limit 2 returned one group,
\* that of the first sequence.
C18_Witness ==
    /\ Listed /\ OnlySuccessfulCreates /\ call.arg = 2
    /\ Len(db_sequences) = 2
    /\ Range(db_sequences[2].items) \subseteq Range(db_sequences[1].items)
    /\ Len(call.out) = 1
    /\ ListedSequences = {db_sequences[1]._id}

\* The stored subsequences that carry the sequence_id id, by position.
Carrying(id) ==
    {i \in 1..Len(db_subsequences) : db_subsequences[i].sequence_id = id}

\* The key of the group of id: the newest created_at among them.
GroupKey(id) ==
    CHOOSE t \in {db_subsequences[i].created_at : i \in Carrying(id)} :
        \A i \in Carrying(id) : db_subsequences[i].created_at <= t

\* The sequence_ids of the groups a listing returned, in the order returned.
ListedKeys == [k \in 1..Len(call.unwound) |-> call.unwound[k]._id]

\* C19: the groups of a listing come newest key first, the key of a group
\* being the largest created_at among the stored subsequences of its
\* sequence_id, and no group left out has a key above that of a returned one.
C19_NewestFirst ==
    Listed =>
        /\ Len(call.out) = Len(ListedKeys)
        /\ Range(ListedKeys) \subseteq StoredKeys
        /\ \A k \in 1..(Len(ListedKeys) - 1) :
              GroupKey(ListedKeys[k]) >= GroupKey(ListedKeys[k + 1])
        /\ \A id \in StoredKeys \ Range(ListedKeys) :
              \A k \in 1..Len(ListedKeys) :
                  GroupKey(id) <= GroupKey(ListedKeys[k])

\* A listing with limit 2 returned two groups, that of the sequence created
\* second before that of the first.
C19_Witness ==
    /\ Listed /\ call.arg = 2 /\ Len(call.out) = 2
    /\ ListedKeys[1].v = db_sequences[2]._id.v
    /\ ListedKeys[2].v = db_sequences[1]._id.v
    /\ GroupKey(ListedKeys[1]) > GroupKey(ListedKeys[2])

\* C20: every document latest_grouped returns stands for one sequence_id of
\* the stored subsequences, no two for the same: its subsequences are the
\* items of the stored subsequences with that sequence_id, each once per
\* record, and its sequence is the items of the stored sequence whose _id
\* the sequence_id denotes; list_latest keeps that sequence.
C20_GroupPerSequenceId ==
    Listed =>
        /\ Len(call.docs) = Len(ListedKeys)
        /\ Cardinality(Range(ListedKeys)) = Len(ListedKeys)
        /\ \A k \in 1..Len(call.docs) :
              LET id == ListedKeys[k]
                  subs == call.docs[k].subsequences
              IN  /\ id \in StoredKeys
                  /\ Len(subs) = Cardinality(Carrying(id))
                  /\ Range(subs) = {db_subsequences[i].items : i \in Carrying(id)}
                  /\ \E i \in 1..Len(db_sequences) :
                        /\ db_sequences[i]._id.v = id.v
                        /\ call.docs[k].sequence = db_sequences[i].items
                        /\ call.out[k].sequence = db_sequences[i].items

\* A listing returned two groups, one whose subsequences were written one
\* by one (sequence_id an ObjectId) and one written as a batch (a string),
\* each with its own sequence.
C20_Witness ==
    /\ Listed /\ Len(call.docs) = 2
    /\ {ListedKeys[1].type, ListedKeys[2].type} = {"ObjectId", "str"}
    /\ call.docs[1].sequence # call.docs[2].sequence
    /\ \E k \in 1..2 : Len(call.docs[k].subsequences) > 100

\* The errors of the store that are not the duplicate-content condition.
OtherStoreErrors == {"OperationFailure"}

\* The documents of col that a step added.
Added(col, col2) == StoredDocs(col2) \ StoredDocs(col)

\* C21: a store write of create_from_sequence that fails with anything but
\* the duplicate-content condition ends the request with that error; the
\* failed request does nothing more (no retry, no further write), and the
\* step that fails it, like every other step, leaves the records already
\* stored in place.
C21_StoreFailurePropagates ==
    [][\A r \in Requests :
          /\ req'[r].store_error \in OtherStoreErrors =>
                /\ req'[r].pc = "failed"
                /\ req'[r].result = [kind |-> req'[r].store_error]
          /\ (req[r].pc # "failed" /\ req'[r].pc = "failed") =>
                /\ req'[r].store_error \in OtherStoreErrors
                /\ db_sequences' = db_sequences
                /\ db_subsequences' = db_subsequences
                /\ req'[r].insert_calls = req[r].insert_calls
                /\ req'[r].upsert_calls = req[r].upsert_calls
                /\ req'[r].bulk_calls = req[r].bulk_calls
          /\ req[r].pc = "failed" =>
                /\ req'[r] = req[r]
                /\ \A d \in Added(db_sequences, db_sequences') :
                      d._id.v # req[r].seq_id.v
                /\ \A d \in Added(db_subsequences, db_subsequences') :
                      d.sequence_id.v # req[r].seq_id.v
          /\ StoredDocs(db_sequences) \subseteq StoredDocs(db_sequences')
          /\ StoredDocs(db_subsequences) \subseteq StoredDocs(db_subsequences')
      ]_vars

\* A request failed at its third subsequence write; its sequence and its
\* first two subsequences are stored, and the other request has completed
\* after it.
C21_Witness ==
    \E r, q \in Requests :
        /\ req[r].pc = "failed" /\ req[r].upsert_calls = 3
        /\ req[r].result.kind = "OperationFailure"
        /\ \E i \in 1..Len(db_sequences) :
              db_sequences[i]._id.v = req[r].seq_id.v
        /\ Cardinality({i \in 1..Len(db_subsequences) :
               db_subsequences[i].sequence_id.v = req[r].seq_id.v}) = 2
        /\ req[q].pc = "done" /\ req[q].seq_id.v > req[r].seq_id.v

\* The item-sets request r has stored so far, by their hash.
WrittenBy(r) ==
    {h \in DOMAIN first_writer : first_writer[h] = req[r].seq_id.v}

\* C22: a listing taken at any moment of a create shows of every request,
\* in flight or completed, exactly the subsequences the request has stored
\* up to that moment, provided the limit does not cut the request's group
\* off: part of them for a request still writing, all of them for a request
\* that has completed.
C22_ListingDuringCreate ==
    Listed =>
        \A r \in Requests :
            (WrittenBy(r) # {} /\ Cardinality(StoredKeys) <= call.arg) =>
                \E k \in 1..Len(call.out) :
                    /\ ListedKeys[k].v = req[r].seq_id.v
                    /\ {hash_items(x) :
                           x \in Range(call.out[k].sub_sequences)}
                          = WrittenBy(r)

\* A listing taken while a request had stored 64 of its 127 subsequences
\* returned the group of its sequence with those 64.
C22_Witness ==
    \E r \in Requests :
        /\ Listed /\ req[r].pc = "bulk_write"
        /\ Len(req[r].operations) = 127 /\ req[r].i = 65
        /\ \E k \in 1..Len(call.out) :
              /\ ListedKeys[k].v = req[r].seq_id.v
              /\ call.out[k].sequence = req[r].canon
              /\ Len(call.out[k].sub_sequences) = 64

\* col2 is col with documents added at its end: every document of col is
\* in col2, in its place and with the values of all its fields.
GrownFrom(col, col2) ==
    /\ Len(col) <= Len(col2)
    /\ SubSeq(col2, 1, Len(col)) = col

\* C23: no step of a create or of a listing updates or deletes a stored
\* sequence or subsequence: each collection after the step is the collection
\* before it with documents added, and a listing adds none.
C23_RecordsImmutable ==
    [][/\ GrownFrom(db_sequences, db_sequences')
       /\ GrownFrom(db_subsequences, db_subsequences')
       /\ call' # call =>
             /\ db_sequences' = db_sequences
             /\ db_subsequences' = db_subsequences
      ]_vars

\* Two creates have completed, the second a batch that met three item-sets
\* the first had stored, which still carry the first's id and time, and a
\* listing has returned both groups.
C23_Witness ==
    \E r, q \in Requests :
        /\ Listed /\ Len(call.out) = 2
        /\ req[r].pc = "done" /\ req[r].upsert_calls = 3
        /\ req[q].pc = "done" /\ req[q].used_bulk
        /\ Len(req[q].operations) = 127 /\ req[q].upserted = 124
        /\ \A i \in 1..3 :
              /\ db_subsequences[i].sequence_id.v = req[r].seq_id.v
              /\ db_subsequences[i].created_at < req[q].now

\* The step answers the exchange of r.
Answers(r) == call.exchange[r].status = 0 /\ call'.exchange[r].status # 0

StoreUnchanged == UNCHANGED <<db_sequences, db_subsequences, next_oid>>

\* C24: a POST /sequences of an authorized caller whose items list is empty
\* or holds an element <= 0 is answered 422 by a step that leaves the store
\* as it is, and create_from_sequence never runs for it; whatever the
\* credentials, create_from_sequence runs only on the non-empty lists of
\* positive items.
C24_InvalidItemsRejected ==
    [][\A r \in Requests :
          LET ex == call'.exchange[r]
              invalid == ex.items = <<>> \/ \E i \in 1..Len(ex.items) :
                                               ex.items[i] <= 0
          IN  /\ (ex.path = "POST /sequences" /\ invalid) =>
                    /\ req'[r].pc = "idle"
                    /\ req'[r].insert_calls = 0
                    /\ Answers(r) =>
                          /\ StoreUnchanged
                          /\ ex.credentials = "valid" => ex.status = 422
              /\ req'[r].pc # "idle" =>
                    /\ ex.path = "POST /sequences"
                    /\ req'[r].items = ex.items
                    /\ ex.items # <<>>
                    /\ \A i \in 1..Len(ex.items) : ex.items[i] > 0
      ]_vars

\* With the subsequences of an earlier create stored, an authorized POST of
\* a list holding 0 was answered 422; neither collection has a record of it.
C24_Witness ==
    \E r, q \in Requests :
        /\ call.fn = "http"
        /\ call.exchange[r].path = "POST /sequences"
        /\ call.exchange[r].credentials = "valid"
        /\ call.exchange[r].items = <<2, 0>>
        /\ call.exchange[r].status = 422
        /\ req[r].pc = "idle"
        /\ call.exchange[q].status = 200 /\ req[q].pc = "done"
        /\ Len(db_sequences) = 1 /\ Len(db_subsequences) = 3

\* The two routes that depend on jwt_guard.
Protected == {"POST /sequences", "GET /subsequences"}

\* C25: on POST /sequences and GET /subsequences a request without
\* credentials is answered 403 and one with an invalid or expired token
\* 401, by a step that neither reads nor writes the store; the service runs
\* (a create leaves "idle", a listing is returned) only for valid
\* credentials; GET /health and POST /auth/token are answered without
\* regard to the credentials.
C25_GuardedEndpoints ==
    [][\A r \in Requests :
          LET ex == call'.exchange[r]
          IN  /\ (ex.path \in Protected /\ ex.credentials # "valid") =>
                    /\ req'[r].pc = "idle"
                    /\ ex.body = <<>>
                    /\ Answers(r) =>
                          /\ StoreUnchanged
                          /\ ex.status =
                               IF ex.credentials = "none" THEN 403 ELSE 401
              /\ (ex.path \in Protected /\ ex.status = 200) =>
                    ex.credentials = "valid"
              /\ req'[r].pc # "idle" => ex.credentials = "valid"
              /\ (ex.path = "POST /auth/token" /\ Answers(r)) =>
                    ex.status = 200
              /\ (ex.path = "GET /health" /\ Answers(r)) =>
                    ex.status \in {200, 503}
      ]_vars

\* A listing without credentials was answered 403 and a create with an
\* expired token 401, with nothing stored.
C25_Witness ==
    \E r, q \in Requests :
        /\ call.fn = "http"
        /\ call.exchange[r].path = "GET /subsequences"
        /\ call.exchange[r].credentials = "none"
        /\ call.exchange[r].status = 403
        /\ call.exchange[q].path = "POST /sequences"
        /\ call.exchange[q].credentials = "expired"
        /\ call.exchange[q].items = <<1, 2>>
        /\ call.exchange[q].status = 401
        /\ db_sequences = <<>> /\ db_subsequences = <<>>

\* The sequence of the collection col whose _id is the id v.
SequenceOf(col, v) ==
    {col[i] : i \in {j \in 1..Len(col) : col[j]._id.v = v}}

\* C26: within one create the sequence is stored and its id known before
\* the first subsequence write is issued, and every subsequence write of
\* the request carries that id: a request that is writing or has written
\* subsequences holds the id of its stored sequence, the statements of its
\* batch carry it, and every subsequence a step adds carries the id of a
\* request that was writing, whose sequence was stored before the step.
C26_SequenceFirst ==
    [][/\ \A r \in Requests :
             (req'[r].upsert_calls + req'[r].bulk_calls > 0) =>
                 /\ req'[r].insert_calls = 1
                 /\ \E sq \in SequenceOf(db_sequences', req'[r].seq_id.v) :
                       /\ sq.items = req'[r].canon
                       /\ sq.created_at < req'[r].now
                 /\ \A k \in 1..Len(req'[r].operations) :
                       req'[r].operations[k].sequence_id = req'[r].seq_id
       /\ \A d \in Added(db_subsequences, db_subsequences') :
             \E r \in Requests :
                 /\ req[r].pc \in {"upsert", "bulk_write"}
                 /\ req'[r] # req[r]
                 /\ d.sequence_id.v = req[r].seq_id.v
                 /\ d.created_at = req[r].now
                 /\ SequenceOf(db_sequences, req[r].seq_id.v) # {}
      ]_vars

\* Both requests have completed, one by three single writes and one by a
\* batch, and every stored subsequence is younger than the sequence whose
\* id it carries.
C26_Witness ==
    \E r, q \in Requests :
        /\ req[r].pc = "done" /\ req[r].upsert_calls = 3
        /\ req[q].pc = "done" /\ req[q].bulk_calls = 1
        /\ Len(db_subsequences) = 127
        /\ \A i \in 1..Len(db_subsequences) :
              \E sq \in SequenceOf(db_sequences,
                                    db_subsequences[i].sequence_id.v) :
                  sq.created_at < db_subsequences[i].created_at
        /\ {db_subsequences[i].sequence_id.v : i \in 1..Len(db_subsequences)}
              = {req[r].seq_id.v, req[q].seq_id.v}

\* The stored subsequences that carry the id of request r, by position.
RecordsOf(r) ==
    {i \in 1..Len(db_subsequences) :
        db_subsequences[i].sequence_id.v = req[r].seq_id.v}

\* The item-set S had a record before request r began: a record of a
\* sequence created before r's (requests served one after the other).
StoredBefore(r, S) ==
    \E i \in DocsOf(S) : db_subsequences[i].sequence_id.v < req[r].seq_id.v

\* C27: after a create has returned for the canonical sequence C, every
\* non-empty subset of C has a stored subsequence; with requests served one
\* at a time the request added as many subsequences as C has non-empty
\* subsets without a record beforehand, at most 2^n - 1, which is also the
\* count the batched path reports.
C27_AllSubsetsStored ==
    \A r \in Requests :
        req[r].pc = "done" =>
            LET C == req[r].canon
                added == Cardinality(RecordsOf(r))
            IN  /\ \A S \in NonEmptySubsets(C) : DocsOf(S) # {}
                /\ added = Cardinality({S \in NonEmptySubsets(C) :
                                          ~StoredBefore(r, S)})
                /\ added <= Pow2(Len(C)) - 1
                /\ req[r].used_bulk => req[r].upserted = added

\* A create for [1, 2] and then a batched create for [1..7] have returned:
\* the second added 124 subsequences, the 127 less the three of the first.
C27_Witness ==
    \E r, q \in Requests :
        /\ req[r].pc = "done" /\ req[r].canon = <<1, 2>>
        /\ Cardinality(RecordsOf(r)) = 3
        /\ req[q].pc = "done" /\ Len(req[q].canon) = 7
        /\ req[q].seq_id.v > req[r].seq_id.v
        /\ Cardinality(RecordsOf(q)) = 124
        /\ Len(db_subsequences) = 127

\* The digest of the items of a list joined with commas in the order given.
DigestOf(items) ==
    sha256_hexdigest(join([k \in 1..Len(items) |-> str(items[k])]))

\* C28: every stored subsequence, written one by one or in a batch, has a
\* non-empty and strictly ascending (so duplicate-free) items list, and its
\* items_hash is the content hash of exactly that list.
C28_StoredSubsequenceShape ==
    \A i \in 1..Len(db_subsequences) :
        LET d == db_subsequences[i]
        IN  /\ d.items # <<>>
            /\ StrictlyAscending(d.items)
            /\ Cardinality(Range(d.items)) = Len(d.items)
            /\ d.items_hash = DigestOf(d.items)
            /\ d.items_hash = hash_items(d.items)

\* The store holds subsequences of both write paths, among them [1, 2]
\* written by an insert and [1, 2, 3, 4, 5, 6, 7] written by the batch.
C28_Witness ==
    \E i, j \in 1..Len(db_subsequences) :
        /\ db_subsequences[i].sequence_id.type = "ObjectId"
        /\ db_subsequences[i].items = <<1, 2>>
        /\ db_subsequences[i].items_hash = "sha256(1,2)"
        /\ db_subsequences[j].sequence_id.type = "str"
        /\ db_subsequences[j].items = <<1, 2, 3, 4, 5, 6, 7>>

\* C29: in every state, also in the middle of a create and after a create
\* that failed, each stored subsequence carries the id of a stored sequence
\* and its items are items of that sequence.
C29_ReferentialIntegrity ==
    \A i \in 1..Len(db_subsequences) :
        \E sq \in SequenceOf(db_sequences, db_subsequences[i].sequence_id.v) :
            Range(db_subsequences[i].items) \subseteq Range(sq.items)

\* One request failed after its second subsequence write and the other is
\* between two parts of its batch; the subsequences of both are stored.
C29_Witness ==
    \E r, q \in Requests :
        /\ req[r].pc = "failed" /\ req[r].upsert_calls = 3
        /\ Cardinality(RecordsOf(r)) = 2
        /\ req[q].pc = "bulk_write" /\ req[q].i > 1
        /\ Cardinality(RecordsOf(q)) > 0

\* The entries of a listing: group k, position a in its sub_sequences.
ListedEntries ==
    UNION {{<<k, a>> : a \in 1..Len(call.out[k].sub_sequences)} :
              k \in 1..Len(call.out)}

\* C30: in one listing no item-set is listed twice, neither in two groups
\* nor within one, and every item-set is listed in the group of the
\* sequence whose request stored it first.
C30_ItemSetListedOnce ==
    Listed =>
        /\ Cardinality(ListedEntries) =
              Cardinality({call.out[e[1]].sub_sequences[e[2]] :
                              e \in ListedEntries})
        /\ \A e \in ListedEntries :
              first_writer[hash_items(call.out[e[1]].sub_sequences[e[2]])]
                  = ListedKeys[e[1]].v

\* The sequences [1, 2] and [1, 2, 3] were created in that order and a
\* listing returned both groups: [1, 2] is listed in the first's group and
\* not in the second's, which has the four item-sets holding 3.
C30_Witness ==
    /\ Listed /\ Len(call.out) = 2
    /\ call.out[1].sequence = <<1, 2, 3>>
    /\ call.out[2].sequence = <<1, 2>>
    /\ Len(call.out[1].sub_sequences) = 4
    /\ <<1, 2>> \in Range(call.out[2].sub_sequences)
    /\ <<1, 2>> \notin Range(call.out[1].sub_sequences)

====
